---- MODULE Spec2Model ----
(***************************************************************************)
(* A model of khrj/retried: the timeout-sequence generator (timeouts,      *)
(* createTimeout, operation) and the RetryOperation object (attempt,       *)
(* retry, succeed, reset, stop, getMainError) together with the timers it  *)
(* schedules with setTimeout.                                              *)
(***************************************************************************)
EXTENDS Integers, Sequences, FiniteSets, TLC

\* ------------------------------------------------------------------ bounds

\* Largest finite `retries` option drawn for the generator.
MaxRetries == 3
\* Largest finite `retries` option drawn for an operation that is then driven.
MaxOpRetries == 2
\* Largest attempt index passed to createTimeout directly.
MaxAttemptIdx == 3
\* retry() calls made on one operation.
MaxCalls == 3
\* Latest time to which the clock is advanced by waiting (timers may fire later).
MaxClock == 2
\* attempt() calls made on one operation.
MaxAttemptCalls == 1
\* retry() calls suspended in their backoff wait at the same time.
MaxSuspended == 1
\* Longest errors array given to getMainError.
MaxErrLen == 5

\* ---------------------------------------------------------- JavaScript values

\* Number.POSITIVE_INFINITY: greater than every finite number of the model.
Infinity == 1000000000

\* The value `undefined`, for fields that hold a number or nothing.
Undefined == -1

Max(a, b) == IF a >= b THEN a ELSE b

Min(a, b) == IF a <= b THEN a ELSE b

RECURSIVE Pow(_, _)
Pow(b, e) == IF e = 0 THEN 1 ELSE b * Pow(b, e - 1)

\* Math.round of the non-negative rational n/d: the nearest integer, halves up.
Round(n, d) == (2 * n + d) \div (2 * d)

\* The object spread {...defaults, ...params}: a field of params wins.
Merge(defaults, params) ==
    [k \in (DOMAIN defaults) \cup (DOMAIN params) |->
        IF k \in DOMAIN params THEN params[k] ELSE defaults[k]]

\* options.k || d, for a field that may be absent
OrElse(o, k, falsy, d) ==
    IF k \in DOMAIN o /\ o[k] # falsy THEN o[k] ELSE d

\* ------------------------------------------------------- program constants

DefaultRetries == 10
DefaultMinTimeout == 1000
DefaultFactorNum == 2

\* Math.random() + 1 lies in [1, 2); the model draws it in quarters: r/4.
RandomDen == 4

Randoms == RandomDen .. (2 * RandomDen - 1)

\* `factor` is a rational num/den (it is not restricted to integers).
CreateTimeoutDefaults ==
    [factor |-> [num |-> DefaultFactorNum, den |-> 1],
     minTimeout |-> DefaultMinTimeout,
     maxTimeout |-> Infinity,
     randomize |-> FALSE]

TimeoutsDefaults ==
    [retries |-> DefaultRetries,
     minTimeout |-> DefaultMinTimeout,
     maxTimeout |-> Infinity,
     forever |-> FALSE]

\* ------------------------------------------------- timeout sequence generator

\* createTimeout(attempt, params); rnd is what Math.random() + 1 returns, times
\* RandomDen.
CreateTimeoutTrunc(attempt, params, rnd) ==
    LET options == Merge(CreateTimeoutDefaults, params)
        random == IF options.randomize THEN rnd ELSE RandomDen
        num == random * Max(options.minTimeout, 1) * Pow(options.factor.num, attempt)
        den == RandomDen * Pow(options.factor.den, attempt)
    IN  Min(num \div den, options.maxTimeout)

CreateTimeout(attempt, params, rnd) ==
    LET options == Merge(CreateTimeoutDefaults, params)
        random == IF options.randomize THEN rnd ELSE RandomDen
        num == random * Max(options.minTimeout, 1) * Pow(options.factor.num, attempt)
        den == RandomDen * Pow(options.factor.den, attempt)
    IN  Min(Round(num, den), options.maxTimeout)

\* Array.prototype.sort((a, b) => a - b): insertion into an ascending sequence.
RECURSIVE Insert(_, _)
Insert(x, s) ==
    IF s = <<>> THEN <<x>>
    ELSE IF x < Head(s) THEN <<x>> \o s
    ELSE <<Head(s)>> \o Insert(x, Tail(s))

RECURSIVE SortAsc(_)
SortAsc(s) == IF s = <<>> THEN <<>> ELSE Insert(s[Len(s)], SortAsc(SubSeq(s, 1, Len(s) - 1)))

\* The random drawn by the i-th createTimeout call; calls beyond those drawn (made
\* only when randomize is off) do not read it.
At(rnds, i) == IF i \in DOMAIN rnds THEN rnds[i] ELSE RandomDen

\* timeouts(params). rnds[i] is the random drawn by the call createTimeout(i, ..).
\* The result says how the call ended: "threw" (the configuration error),
\* "diverged" (the loop `i < Infinity` never ends) or "returned", with the array
\* returned and the number of createTimeout calls made.
TimeoutsNoSort(params, rnds) ==
    LET options == Merge(TimeoutsDefaults, params)
    IN  IF options.minTimeout > options.maxTimeout
        THEN [end |-> "threw", value |-> <<>>, calls |-> 0]
        ELSE IF options.retries = Infinity
        THEN [end |-> "diverged", value |-> <<>>, calls |-> Infinity]
        ELSE LET loop == [i \in 1 .. options.retries |-> CreateTimeout(i - 1, options, At(rnds, i - 1))]
                 all == IF options.forever /\ Len(loop) = 0
                        THEN <<CreateTimeout(options.retries, options, At(rnds, options.retries))>>
                        ELSE loop
             IN  [end |-> "returned", value |-> all, calls |-> Len(all)]

TimeoutsLateCheck(params, rnds) ==
    LET options == Merge(TimeoutsDefaults, params)
    IN  IF options.retries = Infinity
        THEN [end |-> "diverged", value |-> <<>>, calls |-> Infinity]
        ELSE LET loop == [i \in 1 .. options.retries |-> CreateTimeout(i - 1, options, At(rnds, i - 1))]
                 all == IF options.forever /\ Len(loop) = 0
                        THEN <<CreateTimeout(options.retries, options, At(rnds, options.retries))>>
                        ELSE loop
             IN  IF options.minTimeout > options.maxTimeout
                 THEN [end |-> "threw", value |-> <<>>, calls |-> Len(all)]
                 ELSE [end |-> "returned", value |-> SortAsc(all), calls |-> Len(all)]

Timeouts(params, rnds) ==
    LET options == Merge(TimeoutsDefaults, params)
    IN  IF options.minTimeout > options.maxTimeout
        THEN [end |-> "threw", value |-> <<>>, calls |-> 0]
        ELSE IF options.retries = Infinity
        THEN [end |-> "diverged", value |-> <<>>, calls |-> Infinity]
        ELSE LET loop == [i \in 1 .. options.retries |-> CreateTimeout(i - 1, options, At(rnds, i - 1))]
                 all == IF options.forever /\ Len(loop) = 0
                        THEN <<CreateTimeout(options.retries, options, At(rnds, options.retries))>>
                        ELSE loop
             IN  [end |-> "returned", value |-> SortAsc(all), calls |-> Len(all)]

\* ------------------------------------------------------------------- state

VARIABLES
    phase,              \* "start", then how operation(options) ended: "ready", "threw", "diverged"
    opts,               \* the options record given to the factory
    delaysComputed,     \* createTimeout calls made by the factory
    attempts,           \* RetryOperation.attempts
    errors,             \* RetryOperation.errors
    forever,            \* RetryOperation.options.forever
    maxRetryTime,       \* RetryOperation.maxRetryTime
    originalTimeouts,   \* RetryOperation.originalTimeouts
    timeouts,           \* RetryOperation.timeouts
    cachedTimeouts,     \* RetryOperation.cachedTimeouts (an array or UndefinedArray)
    timeout,            \* RetryOperation.timeout: the watchdog's timer id, or Undefined
    operationTimeout,   \* RetryOperation.operationTimeout
    operationTimeoutFn, \* RetryOperation.operationTimeoutFn is set
    operationStart,     \* RetryOperation.operationStart
    timer,              \* RetryOperation.timer: the backoff timer's id, or Undefined
    fn,                 \* RetryOperation.fn is set
    timers,             \* the runtime's pending setTimeout timers
    nextId,             \* the id the next setTimeout returns
    now,                \* new Date().getTime()
    retryCalls,         \* retry() calls made
    hung,               \* retry() calls whose backoff timer was cleared: they never resume
    fnCalls,            \* invocations of the work function
    fnArg,              \* the attempt number the work function was last invoked with
    last,               \* the latest call or timer callback, its argument and its result
    attemptCalls,       \* attempt() calls made
    truncated,          \* in forever mode a retry() has found no timeout left and truncated errors
    protocol,           \* the caller has so far made one attempt() and then one retry(err) per failure
    stopCalled,         \* stop() has been called
    resetAfterStop,     \* reset() has been called after a stop()
    outcome,            \* the calls ("succeed", "retry") made since the work function was last invoked
    orderly,            \* the caller has so far reported one outcome per invocation and never called reset()
    gen                 \* the latest direct call of createTimeout or getMainError and its result

instance == <<attempts, errors, forever, maxRetryTime, originalTimeouts, timeouts,
              cachedTimeouts, timeout, operationTimeout, operationTimeoutFn,
              operationStart, timer, fn>>

runtime == <<timers, nextId, now>>

history == <<retryCalls, hung, fnCalls, fnArg, attemptCalls, truncated, protocol, stopCalled,
             resetAfterStop, outcome, orderly>>

vars == <<phase, opts, delaysComputed, instance, runtime, history, last, gen>>

\* An array field that is `undefined`.
UndefinedArray == <<Undefined>>

\* Error values: the object passed to the k-th retry() call, `undefined`, and the
\* marker retry() makes when the time budget is exceeded.
Err(k) == [message |-> "failed", id |-> k]

UndefinedError == [message |-> "undefined", id |-> Undefined]

TimeoutMarker == [message |-> "RetryOperation timeout occurred", id |-> 0]

\* A step: the method called, and for a retry() call ("retry": the call itself,
\* "resume": its continuation after the backoff wait) the number of the call, the
\* error passed and the result, "suspended" while the call waits; or a watchdog
\* callback ("watchdog") with the attempt number it is called with, the timer
\* that fired and its result.
Step(call, k, arg, ret) == [call |-> call, k |-> k, arg |-> arg, ret |-> ret]

NoGen == [call |-> "none", input |-> <<>>, output |-> <<>>]

\* The state before operation(options) is called with the given options.
Start(options) ==
    /\ phase = "start"
    /\ opts = options
    /\ delaysComputed = 0
    /\ attempts = 0
    /\ errors = <<>>
    /\ forever = FALSE
    /\ maxRetryTime = Infinity
    /\ originalTimeouts = <<>>
    /\ timeouts = <<>>
    /\ cachedTimeouts = UndefinedArray
    /\ timeout = Undefined
    /\ operationTimeout = Undefined
    /\ operationTimeoutFn = FALSE
    /\ operationStart = Undefined
    /\ timer = Undefined
    /\ fn = FALSE
    /\ timers = {}
    /\ nextId = 1
    /\ now = 1
    /\ retryCalls = 0
    /\ hung = 0
    /\ fnCalls = 0
    /\ fnArg = Undefined
    /\ last = Step("none", 0, UndefinedError, "none")
    /\ attemptCalls = 0
    /\ truncated = FALSE
    /\ protocol = TRUE
    /\ stopCalled = FALSE
    /\ resetAfterStop = FALSE
    /\ outcome = {}
    /\ orderly = TRUE
    /\ gen = NoGen

\* ------------------------------------------------------------- the factory

\* The createTimeout calls of timeouts(options) that draw a random: all of them
\* when randomize is on, none otherwise.
Draws(options) ==
    LET o == Merge(TimeoutsDefaults, options)
    IN  IF "randomize" \in DOMAIN o /\ o.randomize /\ o.retries # Infinity
        THEN 0 .. Max(o.retries - 1, 0)
        ELSE {}

\* new RetryOperation(timeouts, options)
Constructor(ts, options) ==
    /\ originalTimeouts' = ts
    /\ timeouts' = ts
    /\ forever' = options.forever
    /\ maxRetryTime' = options.maxRetryTime
    /\ errors' = <<>>
    /\ attempts' = 1
    /\ cachedTimeouts' = IF options.forever THEN ts ELSE UndefinedArray

\* operation(options)
Operation ==
    /\ phase = "start"
    /\ \E rnds \in [Draws(opts) -> Randoms] :
        LET ts == Timeouts(opts, rnds)
        IN  /\ phase' = IF ts.end = "returned" THEN "ready" ELSE ts.end
            /\ delaysComputed' = ts.calls
            /\ IF ts.end = "returned"
               THEN Constructor(ts.value,
                        [forever |-> OrElse(opts, "forever", FALSE, FALSE)
                                        \/ ("retries" \in DOMAIN opts /\ opts.retries = Infinity),
                         maxRetryTime |-> OrElse(opts, "maxRetryTime", 0, Infinity)])
               ELSE UNCHANGED <<attempts, errors, forever, maxRetryTime, originalTimeouts,
                                timeouts, cachedTimeouts>>
    /\ last' = Step("operation", 0, UndefinedError, "returned")
    /\ UNCHANGED <<opts, timeout, operationTimeout, operationTimeoutFn, operationStart,
                   timer, fn, runtime, history, gen>>

\* ------------------------------------------------------------ the runtime

\* setTimeout(callback, delay) at the current time: the pending timers with the
\* new one, whose id is nextId. A delay of `undefined` is a delay of 0. The
\* timer remembers the retry() call and the invocation of the work function it
\* was set for.
SetTimeout(pending, kind, src, delay, call, att, inv, at) ==
    pending \cup {[id |-> nextId, kind |-> kind, src |-> src, delay |-> delay,
                   due |-> at + Max(delay, 0), call |-> call, attempt |-> att,
                   inv |-> inv]}

\* clearTimeout(id): a no-op for an id that is not pending.
ClearTimeout(pending, id) == {t \in pending : t.id # id}

\* `if (handle) clearTimeout(handle)`: timer ids are positive, so truthy.
ClearIfSet(pending, handle) ==
    IF handle # Undefined THEN ClearTimeout(pending, handle) ELSE pending

\* The runtime fires the pending timer that is due first (the older of two due
\* together), and no earlier than its due time.
DueFirst(t) ==
    \A u \in timers : t.due < u.due \/ (t.due = u.due /\ t.id <= u.id)

Suspended == {t \in timers : t.kind = "backoff"}

\* ---------------------------------------------------------- RetryOperation

\* attempt(fn, timeoutOptions): wd is timeoutOptions.timeout, Undefined when no
\* timeoutOptions are given; operationTimeoutFn comes with it.
Attempt(wd) ==
    /\ phase = "ready"
    /\ attemptCalls < MaxAttemptCalls
    /\ fn' = TRUE
    /\ operationStart' = now
    /\ fnCalls' = fnCalls + 1
    /\ fnArg' = attempts
    /\ IF wd # Undefined /\ wd # 0
       THEN /\ operationTimeout' = wd
            /\ operationTimeoutFn' = TRUE
            /\ timers' = SetTimeout(timers, "watchdog", "attempt", wd, 0, attempts,
                                    fnCalls + 1, now)
            /\ nextId' = nextId + 1
       ELSE UNCHANGED <<operationTimeout, operationTimeoutFn, timers, nextId>>
    /\ attemptCalls' = attemptCalls + 1
    /\ protocol' = (protocol /\ attemptCalls = 0 /\ retryCalls = 0)
    /\ outcome' = {}
    /\ last' = Step("attempt", 0, UndefinedError, "returned")
    /\ UNCHANGED <<phase, opts, delaysComputed, attempts, errors, forever, maxRetryTime,
                   originalTimeouts, timeouts, cachedTimeouts, timeout, timer, now,
                   retryCalls, hung, truncated, stopCalled, resetAfterStop, orderly, gen>>

\* succeed()
Succeed ==
    /\ phase = "ready"
    /\ timers' = ClearTimeout(timers, timeout)
    /\ protocol' = FALSE
    /\ outcome' = outcome \cup {"succeed"}
    /\ orderly' = (orderly /\ fn /\ outcome = {})
    /\ last' = Step("succeed", 0, UndefinedError, "returned")
    /\ UNCHANGED <<phase, opts, delaysComputed, instance, nextId, now, retryCalls, hung,
                   fnCalls, fnArg, attemptCalls, truncated, stopCalled, resetAfterStop, gen>>

\* reset()
ResetKeepsTimeouts ==
    /\ phase = "ready"
    /\ attempts' = 1
    /\ protocol' = FALSE
    /\ resetAfterStop' = (resetAfterStop \/ stopCalled)
    /\ orderly' = FALSE
    /\ last' = Step("reset", 0, UndefinedError, "returned")
    /\ UNCHANGED <<phase, opts, delaysComputed, errors, forever, maxRetryTime,
                   originalTimeouts, timeouts, cachedTimeouts, timeout, operationTimeout,
                   operationTimeoutFn, operationStart, timer, fn, runtime, retryCalls,
                   hung, fnCalls, fnArg, attemptCalls, truncated, stopCalled, outcome, gen>>

Reset ==
    /\ phase = "ready"
    /\ attempts' = 1
    /\ timeouts' = originalTimeouts
    /\ protocol' = FALSE
    /\ resetAfterStop' = (resetAfterStop \/ stopCalled)
    /\ orderly' = FALSE
    /\ last' = Step("reset", 0, UndefinedError, "returned")
    /\ UNCHANGED <<phase, opts, delaysComputed, errors, forever, maxRetryTime,
                   originalTimeouts, cachedTimeouts, timeout, operationTimeout,
                   operationTimeoutFn, operationStart, timer, fn, runtime, retryCalls,
                   hung, fnCalls, fnArg, attemptCalls, truncated, stopCalled, outcome, gen>>

\* stop(): a retry() whose backoff timer is cleared never resumes.
StopKeepsCache ==
    /\ phase = "ready"
    /\ timers' = ClearIfSet(ClearIfSet(timers, timeout), timer)
    /\ hung' = hung + Cardinality({t \in Suspended : t.id = timer})
    /\ timeouts' = <<>>
    /\ protocol' = FALSE
    /\ stopCalled' = TRUE
    /\ resetAfterStop' = FALSE
    /\ last' = Step("stop", 0, UndefinedError, "returned")
    /\ UNCHANGED <<phase, opts, delaysComputed, attempts, errors, forever, maxRetryTime,
                   originalTimeouts, cachedTimeouts, timeout, operationTimeout, operationTimeoutFn,
                   operationStart, timer, fn, nextId, now, retryCalls, fnCalls, fnArg,
                   attemptCalls, truncated, outcome, orderly, gen>>

StopKeepsTimeouts ==
    /\ phase = "ready"
    /\ timers' = ClearIfSet(ClearIfSet(timers, timeout), timer)
    /\ hung' = hung + Cardinality({t \in Suspended : t.id = timer})
    /\ cachedTimeouts' = UndefinedArray
    /\ protocol' = FALSE
    /\ stopCalled' = TRUE
    /\ resetAfterStop' = FALSE
    /\ last' = Step("stop", 0, UndefinedError, "returned")
    /\ UNCHANGED <<phase, opts, delaysComputed, attempts, errors, forever, maxRetryTime,
                   originalTimeouts, timeouts, timeout, operationTimeout, operationTimeoutFn,
                   operationStart, timer, fn, nextId, now, retryCalls, fnCalls, fnArg,
                   attemptCalls, truncated, outcome, orderly, gen>>

Stop ==
    /\ phase = "ready"
    /\ timers' = ClearIfSet(ClearIfSet(timers, timeout), timer)
    /\ hung' = hung + Cardinality({t \in Suspended : t.id = timer})
    /\ timeouts' = <<>>
    /\ cachedTimeouts' = UndefinedArray
    /\ protocol' = FALSE
    /\ stopCalled' = TRUE
    /\ resetAfterStop' = FALSE
    /\ last' = Step("stop", 0, UndefinedError, "returned")
    /\ UNCHANGED <<phase, opts, delaysComputed, attempts, errors, forever, maxRetryTime,
                   originalTimeouts, timeout, operationTimeout, operationTimeoutFn,
                   operationStart, timer, fn, nextId, now, retryCalls, fnCalls, fnArg,
                   attemptCalls, truncated, outcome, orderly, gen>>

\* The budget test of retry(err): an error is given, the operation was started,
\* and the time since then has reached maxRetryTime.
OverBudget(err) ==
    /\ err # UndefinedError
    /\ operationStart # Undefined
    /\ now - operationStart >= maxRetryTime

\* this.timeouts.shift(): what is left of the array.
ShiftedFromBack(q) == SubSeq(q, 1, Len(q) - 1)

Shifted(q) == Tail(q)

\* The delay retry() waits: the front of timeouts, else the last of the cached
\* timeouts (forever mode), else Undefined (retry() returns false).
ChosenTimeoutFirst ==
    IF timeouts # <<>> THEN Head(timeouts)
    ELSE IF cachedTimeouts # UndefinedArray THEN cachedTimeouts[1]
    ELSE Undefined

ChosenTimeoutNeverExhausted ==
    IF timeouts # <<>> THEN Head(timeouts)
    ELSE IF originalTimeouts # <<>> THEN originalTimeouts[Len(originalTimeouts)]
    ELSE Undefined

ChosenTimeout ==
    IF timeouts # <<>> THEN Head(timeouts)
    ELSE IF cachedTimeouts # UndefinedArray THEN cachedTimeouts[Len(cachedTimeouts)]
    ELSE Undefined

\* retry(err), up to its return of false or its suspension in the backoff wait.
\* err is UndefinedError when no error value is given. The caller has called
\* attempt() before: retry() asserts that the work function is stored (this.fn!).
Retry(err) ==
    /\ phase = "ready"
    /\ fn
    /\ retryCalls < MaxCalls
    /\ Cardinality(Suspended) < MaxSuspended
    /\ retryCalls' = retryCalls + 1
    /\ LET pending == ClearIfSet(timers, timeout)
       IN  IF OverBudget(err)
           THEN /\ errors' = <<TimeoutMarker>> \o Append(errors, err)
                /\ timers' = pending
                /\ last' = Step("retry", retryCalls + 1, err, "false")
                /\ UNCHANGED <<timeouts, timer, nextId, truncated>>
           ELSE IF ChosenTimeout = Undefined
           THEN /\ errors' = Append(errors, err)
                /\ timers' = pending
                /\ last' = Step("retry", retryCalls + 1, err, "false")
                /\ UNCHANGED <<timeouts, timer, nextId, truncated>>
           ELSE /\ errors' = IF timeouts # <<>> THEN Append(errors, err) ELSE <<err>>
                /\ timeouts' = IF timeouts # <<>> THEN Shifted(timeouts) ELSE timeouts
                /\ truncated' = (truncated \/ timeouts = <<>>)
                /\ timers' = SetTimeout(pending, "backoff", "retry", ChosenTimeout,
                                        retryCalls + 1, attempts, fnCalls, now)
                /\ timer' = nextId
                /\ nextId' = nextId + 1
                /\ last' = Step("retry", retryCalls + 1, err, "suspended")
    /\ protocol' = (/\ protocol
                    /\ attemptCalls = 1
                    /\ err # UndefinedError
                    /\ Suspended = {}
                    /\ fnCalls = retryCalls + 1)
    /\ outcome' = outcome \cup {"retry"}
    /\ orderly' = (orderly /\ outcome = {})
    /\ UNCHANGED <<phase, opts, delaysComputed, attempts, forever, maxRetryTime,
                   originalTimeouts, cachedTimeouts, timeout, operationTimeout,
                   operationTimeoutFn, operationStart, fn, now, hung, fnCalls, fnArg,
                   attemptCalls, stopCalled, resetAfterStop, gen>>

\* The backoff timer t fires: the retry() call waiting for it resumes, invokes the
\* work function, schedules the watchdog and returns true.
ResumeStaleArg(t) ==
    /\ t \in Suspended
    /\ DueFirst(t)
    /\ now' = Max(now, t.due)
    /\ attempts' = attempts + 1
    /\ fnCalls' = fnCalls + 1
    /\ fnArg' = attempts
    /\ timers' = SetTimeout(timers \ {t}, "watchdog", "retry", operationTimeout,
                            0, attempts + 1, fnCalls + 1, Max(now, t.due))
    /\ timeout' = nextId
    /\ nextId' = nextId + 1
    /\ outcome' = {}
    /\ last' = Step("resume", t.call, UndefinedError, "true")
    /\ UNCHANGED <<phase, opts, delaysComputed, errors, forever, maxRetryTime,
                   originalTimeouts, timeouts, cachedTimeouts, operationTimeout,
                   operationTimeoutFn, operationStart, timer, fn, retryCalls, hung,
                   attemptCalls, truncated, protocol, stopCalled, resetAfterStop,
                   orderly, gen>>

Resume(t) ==
    /\ t \in Suspended
    /\ DueFirst(t)
    /\ now' = Max(now, t.due)
    /\ attempts' = attempts + 1
    /\ fnCalls' = fnCalls + 1
    /\ fnArg' = attempts + 1
    /\ timers' = SetTimeout(timers \ {t}, "watchdog", "retry", operationTimeout,
                            0, attempts + 1, fnCalls + 1, Max(now, t.due))
    /\ timeout' = nextId
    /\ nextId' = nextId + 1
    /\ outcome' = {}
    /\ last' = Step("resume", t.call, UndefinedError, "true")
    /\ UNCHANGED <<phase, opts, delaysComputed, errors, forever, maxRetryTime,
                   originalTimeouts, timeouts, cachedTimeouts, operationTimeout,
                   operationTimeoutFn, operationStart, timer, fn, retryCalls, hung,
                   attemptCalls, truncated, protocol, stopCalled, resetAfterStop,
                   orderly, gen>>

\* The watchdog timer t fires. The one attempt() scheduled calls the callback it
\* was given; the one retry() scheduled calls this.operationTimeoutFn, a TypeError
\* when that is undefined. The callback's argument is this.attempts.
Watchdog(t) ==
    /\ t \in timers
    /\ t.kind = "watchdog"
    /\ DueFirst(t)
    /\ now' = Max(now, t.due)
    /\ timers' = timers \ {t}
    /\ last' = Step("watchdog", attempts, t,
                    IF t.src = "retry" /\ ~operationTimeoutFn THEN "TypeError" ELSE "called")
    /\ UNCHANGED <<phase, opts, delaysComputed, instance, nextId, history, gen>>

\* Time passes with no timer firing.
Tick ==
    /\ phase = "ready"
    /\ now < MaxClock
    /\ now' = now + 1
    /\ UNCHANGED <<phase, opts, delaysComputed, instance, timers, nextId, history, last, gen>>

\* A value that is not a number (an inherited method, or the string that adding 1
\* to it gives): comparing it with a number is false.
NotANumber == -2

\* Names every object inherits from Object.prototype: counts[name] is defined for
\* them before anything is counted (the ones the model draws messages from).
ObjectPrototypeKeys == {"constructor", "toString", "valueOf", "hasOwnProperty"}

\* counts[message] of the object literal `counts`, own properties first.
Lookup(counts, message) ==
    IF message \in DOMAIN counts THEN counts[message]
    ELSE IF message \in ObjectPrototypeKeys THEN NotANumber
    ELSE Undefined

\* (value || 0) + 1
OrZeroPlusOne(value) ==
    IF value = Undefined \/ value = 0 THEN 1
    ELSE IF value = NotANumber THEN NotANumber
    ELSE value + 1

\* The loop of getMainError from element i on.
RECURSIVE MainErrorLoop(_, _, _, _, _)
MainErrorLoop(errs, i, counts, mainError, mainErrorCount) ==
    IF i > Len(errs) THEN mainError
    ELSE LET error == errs[i]
             count == OrZeroPlusOne(Lookup(counts, error.message))
             counted == (error.message :> count) @@ counts
         IN  IF count # NotANumber /\ count >= mainErrorCount
             THEN MainErrorLoop(errs, i + 1, counted, error, count)
             ELSE MainErrorLoop(errs, i + 1, counted, mainError, mainErrorCount)

\* getMainError(): the error returned, UndefinedError for `undefined`.
GetMainError(errs) == MainErrorLoop(errs, 1, <<>>, UndefinedError, 0)

\* getMainError(), called by the caller.
GetMainErrorCall ==
    /\ phase = "ready"
    /\ gen' = [call |-> "getMainError", input |-> errors, output |-> GetMainError(errors)]
    /\ UNCHANGED <<phase, opts, delaysComputed, instance, runtime, history, last>>

\* ----------------------------------------------------------- specifications

\* The watchdog duration a caller passes to attempt().
WatchdogTimeout == 1

\* The time budget a caller configures.
Budget == 1

\* Options of the operations that are driven: the values drawn for each field,
\* and the fields that are also drawn absent.
OptionFields ==
    [retries |-> (0 .. MaxOpRetries) \cup {Infinity},
     minTimeout |-> {1},
     maxTimeout |-> {0},
     forever |-> {TRUE},
     maxRetryTime |-> {0, Budget}]

OptionalFields == {"maxTimeout", "forever", "maxRetryTime"}

\* The records with one value per field, or without the field when it is optional.
RECURSIVE Records(_, _, _)
Records(fields, optional, names) ==
    IF names = {} THEN {<<>>}
    ELSE LET n == CHOOSE x \in names : TRUE
             rest == Records(fields, optional, names \ {n})
         IN  UNION {{(n :> v) @@ r : v \in fields[n]} \cup (IF n \in optional THEN {r} ELSE {})
                    : r \in rest}

OperationOptions == Records(OptionFields, OptionalFields, DOMAIN OptionFields)

Init == \E options \in OperationOptions : Start(options)

Next ==
    \/ Operation
    \/ \E wd \in {Undefined, 0, WatchdogTimeout} : Attempt(wd)
    \/ Succeed
    \/ \E err \in {UndefinedError, Err(retryCalls + 1)} : Retry(err)
    \/ \E t \in timers : Resume(t)
    \/ \E t \in timers : Watchdog(t)
    \/ Reset
    \/ Stop
    \/ Tick

Spec == Init /\ [][Next]_vars

\* --------------------------------------------------- the generator on its own

Factors == {[num |-> 1, den |-> 2], [num |-> 1, den |-> 1],
            [num |-> 3, den |-> 2], [num |-> 2, den |-> 1]}

GeneratorFields ==
    [retries |-> (0 .. MaxRetries) \cup {Infinity},
     factor |-> Factors,
     minTimeout |-> {0, 1, 2, DefaultMinTimeout},
     maxTimeout |-> {1, 3},
     randomize |-> {TRUE},
     forever |-> {TRUE}]

\* Every field is optional; randomized sequences are drawn with `retries` given.
GeneratorOptions ==
    {o \in Records(GeneratorFields, DOMAIN GeneratorFields, DOMAIN GeneratorFields) :
        "randomize" \in DOMAIN o => "retries" \in DOMAIN o}

\* createTimeout(attempt, opts), called directly.
CreateTimeoutCall ==
    /\ phase = "start"
    /\ \E i \in 0 .. MaxAttemptIdx, rnd \in Randoms :
        gen' = [call |-> "createTimeout", input |-> <<i, rnd>>,
                output |-> CreateTimeout(i, opts, rnd)]
    /\ UNCHANGED <<phase, opts, delaysComputed, instance, runtime, history, last>>

InitGen == \E options \in GeneratorOptions : Start(options)

NextGen == Operation \/ CreateTimeoutCall

SpecGen == InitGen /\ [][NextGen]_vars

\* ------------------------------------------------ getMainError on its own

Messages == {"A", "B", "C", "constructor"}

RECURSIVE MessageSeqs(_)
MessageSeqs(n) ==
    IF n = 0 THEN {<<>>}
    ELSE LET shorter == MessageSeqs(n - 1)
         IN  shorter \cup {Append(q, m) : q \in {x \in shorter : Len(x) = n - 1}, m \in Messages}

\* An operation built with retries = 0 whose first attempt and every retry()
\* failed: retry(err) has returned false each time, leaving the errors passed.
Failed(msgs) ==
    /\ phase = "ready"
    /\ opts = [retries |-> 0]
    /\ delaysComputed = 0
    /\ attempts = 1
    /\ errors = [i \in 1 .. Len(msgs) |-> [message |-> msgs[i], id |-> i]]
    /\ forever = FALSE
    /\ maxRetryTime = Infinity
    /\ originalTimeouts = <<>>
    /\ timeouts = <<>>
    /\ cachedTimeouts = UndefinedArray
    /\ timeout = Undefined
    /\ operationTimeout = Undefined
    /\ operationTimeoutFn = FALSE
    /\ operationStart = 1
    /\ timer = Undefined
    /\ fn = TRUE
    /\ timers = {}
    /\ nextId = 1
    /\ now = 1
    /\ retryCalls = Len(msgs)
    /\ hung = 0
    /\ fnCalls = 1
    /\ fnArg = 1
    /\ last = IF msgs = <<>> THEN Step("none", 0, UndefinedError, "none")
              ELSE Step("retry", Len(msgs), [message |-> msgs[Len(msgs)], id |-> Len(msgs)], "false")
    /\ attemptCalls = 1
    /\ truncated = FALSE
    /\ protocol = (Len(msgs) <= 1)
    /\ stopCalled = FALSE
    /\ resetAfterStop = FALSE
    /\ outcome = IF msgs = <<>> THEN {} ELSE {"retry"}
    /\ orderly = (Len(msgs) <= 1)
    /\ gen = NoGen

InitErr == \E msgs \in MessageSeqs(MaxErrLen) : Failed(msgs)

NextErr == GetMainErrorCall

SpecErr == InitErr /\ [][NextErr]_vars

\* ======================================================================
\* Properties
\* ======================================================================

\* The options with the defaults of timeouts() and createTimeout() filled in.
Resolved == Merge(CreateTimeoutDefaults, Merge(TimeoutsDefaults, opts))

\* A retry() call is made in this step.
RetryStep == retryCalls' = retryCalls + 1

\* A suspended retry() call resumes in this step.
ResumeStep == attempts' = attempts + 1

LastOf(q) == q[Len(q)]

\* C1: for an operation built with retries = n, not in forever mode and with no
\* time budget, started with attempt() and driven by one retry(err) per failed
\* attempt: retry() call k suspends and then returns true, having invoked the work
\* function for the (k+1)-th time, when k <= n, and returns false at once when
\* k = n + 1; the work function is invoked n + 1 times in all.
C1_RetriesThenFalse ==
    (phase = "ready" /\ protocol /\ attemptCalls = 1 /\ ~forever /\ maxRetryTime = Infinity)
        => /\ fnCalls <= Resolved.retries + 1
           /\ retryCalls <= Resolved.retries + 1
           /\ last.call = "retry" =>
                 /\ last.k = retryCalls
                 /\ last.ret = (IF last.k <= Resolved.retries THEN "suspended" ELSE "false")
                 /\ fnCalls = last.k
           /\ last.call = "resume" =>
                 /\ last.k = retryCalls
                 /\ last.k <= Resolved.retries
                 /\ last.ret = "true"
                 /\ fnCalls = last.k + 1
                 /\ fnArg = last.k + 1

\* The (n+1)-th retry() of such a run has returned false, for the greatest n drawn.
C1_Witness ==
    /\ phase = "ready" /\ protocol /\ attemptCalls = 1 /\ ~forever /\ maxRetryTime = Infinity
    /\ Resolved.retries = MaxOpRetries
    /\ last = Step("retry", MaxOpRetries + 1, Err(MaxOpRetries + 1), "false")
    /\ fnCalls = MaxOpRetries + 1

C3_Original == (forever /\ truncated) => Len(errors) <= 1

\* A retry(err) call is made in this step with an error given, on an operation
\* that attempt() has started, at a time when the budget m has been used up.
RetryOverBudget(m) ==
    /\ RetryStep
    /\ last'.arg # UndefinedError
    /\ operationStart # Undefined
    /\ now - operationStart >= m

\* Such a call returns false, schedules no wait, consumes no timeout, does not
\* invoke the work function, and leaves the marker first and err last in errors.
BudgetRefusal ==
    /\ last'.ret = "false"
    /\ Suspended' \subseteq Suspended
    /\ timers' \subseteq timers
    /\ timeouts' = timeouts
    /\ fnCalls' = fnCalls
    /\ attempts' = attempts
    /\ now' = now
    /\ errors'[1] = TimeoutMarker
    /\ LastOf(errors') = last'.arg
    /\ Len(errors') = Len(errors) + 2

\* C4 as stated: for every finite maxRetryTime M given to the factory.
C4_Original ==
    [][("maxRetryTime" \in DOMAIN opts /\ RetryOverBudget(opts.maxRetryTime))
        => BudgetRefusal]_vars

\* The same for the budgets M > 0, the ones the factory hands to the operation
\* as given (a budget of 0 becomes Infinity).
C4_BudgetExceeded ==
    [][("maxRetryTime" \in DOMAIN opts /\ opts.maxRetryTime > 0
          /\ RetryOverBudget(opts.maxRetryTime))
        => BudgetRefusal]_vars

\* retry(err) has refused for the budget in forever mode with timeouts left, at
\* the very moment the budget was used up.
C4_Witness ==
    /\ phase = "ready" /\ forever /\ timeouts # <<>>
    /\ maxRetryTime = Budget
    /\ now - operationStart = Budget
    /\ last.call = "retry" /\ last.ret = "false"
    /\ errors[1] = TimeoutMarker
    /\ LastOf(errors) = Err(retryCalls)

\* C5: after stop(), with no reset() since, a retry() call returns false at once:
\* it schedules no timer, does not increment attempts and does not invoke the
\* work function.
C5_StopRefusesRetry ==
    [][(stopCalled /\ ~resetAfterStop /\ RetryStep)
        => /\ last'.ret = "false"
           /\ timers' \subseteq timers
           /\ nextId' = nextId
           /\ attempts' = attempts
           /\ fnCalls' = fnCalls
           /\ now' = now]_vars

\* In forever mode stop() was called before any timeout was consumed, and the
\* first retry() after it has returned false.
C5_Witness ==
    /\ phase = "ready" /\ forever
    /\ stopCalled /\ ~resetAfterStop
    /\ Len(originalTimeouts) = MaxOpRetries
    /\ last = Step("retry", 1, Err(1), "false")

Count(q, i) == Cardinality({j \in 1 .. Len(q) : q[j].message = q[i].message})

\* C7 as stated: getMainError() returns undefined for no errors, and otherwise
\* the last element whose message occurs most often.
C7_Original ==
    gen.call = "getMainError"
        => IF gen.input = <<>> THEN gen.output = UndefinedError
           ELSE \E i \in 1 .. Len(gen.input) :
                   /\ gen.output = gen.input[i]
                   /\ \A j \in 1 .. Len(gen.input) : Count(gen.input, j) <= Count(gen.input, i)
                   /\ \A j \in (i + 1) .. Len(gen.input) : Count(gen.input, j) < Count(gen.input, i)

Ascending(q) == \A i \in 1 .. Len(q) - 1 : q[i] <= q[i + 1]

C9_ConfigurationError ==
    (phase # "start" /\ Resolved.minTimeout > Resolved.maxTimeout)
        => /\ phase = "threw"
           /\ delaysComputed = 0
           /\ attempts = 0
           /\ originalTimeouts = <<>>
           /\ timeouts = <<>>
           /\ cachedTimeouts = UndefinedArray

\* The factory has thrown for options that ask for retries.
C9_Witness ==
    /\ phase = "threw"
    /\ Resolved.retries > 0
    /\ Resolved.minTimeout > Resolved.maxTimeout

\* x is the rational n/d rounded to the nearest integer (halves up) and then
\* clamped to mx.
IsClampedRound(x, n, d, mx) ==
    IF x < mx
    THEN 2 * d * x <= 2 * n + d /\ 2 * n + d < 2 * d * (x + 1)
    ELSE x = mx /\ 2 * n + d >= 2 * d * mx

\* x is min(round(max(minTimeout, 1) * factor^i), maxTimeout) for the options given.
IsDelay(x, i) ==
    IsClampedRound(x, Max(Resolved.minTimeout, 1) * Pow(Resolved.factor.num, i),
                   Pow(Resolved.factor.den, i), Resolved.maxTimeout)

\* With randomize off, createTimeout(i, params) is the formula's value, and
\* 1000 * 2^i under the default factor, minTimeout and maxTimeout.
DelayFormula ==
    (gen.call = "createTimeout" /\ ~Resolved.randomize)
        => /\ IsDelay(gen.output, gen.input[1])
           /\ ("factor" \notin DOMAIN opts /\ "minTimeout" \notin DOMAIN opts
                 /\ "maxTimeout" \notin DOMAIN opts)
                 => gen.output = 1000 * Pow(2, gen.input[1])

\* Entry i of the sequence the factory got from timeouts() is createTimeout(i).
EntriesFollowFormula ==
    \A i \in 1 .. Len(originalTimeouts) : IsDelay(originalTimeouts[i], i - 1)

SucceedStep == last'.call = "succeed" /\ now' = now

\* The watchdog timer t fires in this step.
WatchdogFires(t) == t \in timers /\ last'.call = "watchdog" /\ last'.arg = t

\* The watchdog timers set for the latest invocation of the work function.
CurrentWatchdogs(pending) == {t \in pending : t.kind = "watchdog" /\ t.inv = fnCalls}

\* C11 as stated: succeed() leaves attempts and errors unchanged, and after it no
\* retry timer and no watchdog of the current attempt is pending (the one
\* attempt() scheduled included), so that no watchdog fires for an attempt that
\* has succeeded.
C11_Original ==
    [][/\ SucceedStep =>
             /\ attempts' = attempts
             /\ errors' = errors
             /\ Suspended' = {}
             /\ CurrentWatchdogs(timers') = {}
       /\ \A t \in timers :
             (WatchdogFires(t) /\ "succeed" \in outcome) => t.inv # fnCalls]_vars

\* C12 as stated: a retry() call given no error value returns false, whatever
\* timeouts remain; a call given one returns false only when no timeout is left,
\* and otherwise waits for the timeout and then returns true.
C12_Original ==
    [][/\ RetryStep =>
             /\ last'.arg = UndefinedError => last'.ret = "false"
             /\ (last'.arg # UndefinedError /\ last'.ret = "false") => timeouts = <<>>
             /\ (last'.arg # UndefinedError /\ last'.ret # "false") =>
                   \E t \in Suspended' \ Suspended : t.delay = ChosenTimeout
       /\ (phase = "ready" /\ ResumeStep) => last'.ret = "true"]_vars

\* C13 as stated, in the runs with no time budget and no stop(): in forever mode
\* errors holds exactly the error passed after every retry(err) call, whether or
\* not a timeout was left.
C13_Original ==
    [][(phase = "ready" /\ forever /\ maxRetryTime = Infinity /\ ~stopCalled'
          /\ RetryStep /\ last'.arg # UndefinedError)
        => errors' = <<last'.arg>>]_vars

\* C14 as stated: called with retries = Infinity and forever unset (and
\* minTimeout <= maxTimeout), the factory returns an operation in forever mode,
\* one that keeps a timeout for retry() to fall back on; and an operation built
\* with no maxRetryTime has an unbounded budget.
C14_Original ==
    (phase # "start" /\ Resolved.minTimeout <= Resolved.maxTimeout)
        => /\ (Resolved.retries = Infinity /\ "forever" \notin DOMAIN opts)
                 => (phase = "ready" /\ forever /\ cachedTimeouts # UndefinedArray)
           /\ (phase = "ready" /\ "maxRetryTime" \notin DOMAIN opts)
                 => maxRetryTime = Infinity

\* C15: while the caller has started the operation once, has reported exactly one
\* outcome per invocation of the work function and has not called reset(), the
\* work function is invoked with 1, 2, 3, ... in order, and an invocation after
\* the first happens only when the previous one has been reported failed by one
\* retry() call and the backoff timer that call set has run out.
C15_Sequential ==
    [][(orderly' /\ attemptCalls' = 1 /\ fnCalls' = fnCalls + 1)
        => /\ fnArg' = fnCalls'
           /\ fnCalls >= 1 =>
                 /\ fnArg' = fnArg + 1
                 /\ outcome = {"retry"}
                 /\ \E t \in Suspended :
                       /\ t.inv = fnCalls
                       /\ t \notin timers'
                       /\ last' = Step("resume", t.call, UndefinedError, "true")
                       /\ now' >= t.due]_vars

\* The work function has been invoked once per timeout of the longest sequence
\* drawn and once more in such a run, the last time after two backoff waits.
C15_Witness ==
    /\ orderly /\ attemptCalls = 1
    /\ Len(originalTimeouts) = MaxOpRetries
    /\ fnCalls = MaxOpRetries + 1
    /\ fnArg = MaxOpRetries + 1
    /\ last.call = "resume" /\ last.k = MaxOpRetries
    /\ now >= 1 + originalTimeouts[1] + originalTimeouts[2]

\* C16 as stated: after stop() no retry() call returns true or leads to an
\* invocation of the work function, whatever was called in between.
C16_Original ==
    [][(stopCalled /\ RetryStep)
        => /\ last'.ret = "false"
           /\ Suspended' = Suspended
           /\ fnCalls' = fnCalls]_vars

\* C16 as amended: after stop(), a retry() call returns false, sets no backoff
\* timer and invokes nothing, whatever else was called in between, unless a
\* reset() since has given it a timeout to consume; the forever cache stays
\* discarded even after reset().
C16_StopUntilReset ==
    [][(stopCalled /\ RetryStep)
        => /\ cachedTimeouts' = UndefinedArray
           /\ (~resetAfterStop \/ timeouts = <<>>) =>
                 /\ last'.ret = "false"
                 /\ Suspended' = Suspended
                 /\ fnCalls' = fnCalls
                 /\ attempts' = attempts]_vars

\* In forever mode with no budget, after stop() and reset(), the restored timeout
\* has been consumed by one retry() and the next has returned false.
C16_Witness ==
    /\ phase = "ready" /\ forever /\ maxRetryTime = Infinity
    /\ stopCalled /\ resetAfterStop
    /\ fnCalls >= 2
    /\ last.call = "retry" /\ last.ret = "false" /\ last.arg # UndefinedError
    /\ timeouts = <<>>

\* C17 as stated: a watchdog fires only for the latest invocation of the work
\* function and only while no retry() call has reported that invocation failed.
C17_Original ==
    [][\A t \in timers :
          WatchdogFires(t) => (t.inv = fnCalls /\ "retry" \notin outcome)]_vars

\* The watchdog timers set in this step.
NewWatchdogs == {t \in timers' \ timers : t.kind = "watchdog"}

\* C18 as stated: a retry() that resumes sets a watchdog only if attempt() was
\* given a timeout and a callback, and then with that same timeout; with none
\* configured no watchdog timer is set and none ever fires.
C18_Original ==
    [][/\ (phase = "ready" /\ ResumeStep) =>
             IF operationTimeoutFn
             THEN \E t \in NewWatchdogs : NewWatchdogs = {t} /\ t.delay = operationTimeout
             ELSE NewWatchdogs = {}
       /\ \A t \in timers : WatchdogFires(t) => operationTimeoutFn]_vars

\* C19 as stated: the backoff timer of a suspended retry() call stays pending,
\* whatever is called, until it fires, and then that call resumes, invokes the
\* work function and returns true.
C19_Original ==
    [][\A t \in Suspended :
          \/ t \in timers'
          \/ /\ last' = Step("resume", t.call, UndefinedError, "true")
             /\ fnCalls' = fnCalls + 1]_vars

\* q is s without some of its first elements.
IsSuffix(q, s) == \E k \in 0 .. Len(s) : q = SubSeq(s, k + 1, Len(s))

\* C20: once the operation exists, originalTimeouts is the sequence timeouts()
\* computed for the options and never changes, timeouts is a suffix of it, and a
\* retry() call leaves timeouts alone or removes its first element.
C20_TimeoutsSuffix ==
    [][phase' = "ready"
        => /\ originalTimeouts' = Timeouts(opts, <<>>).value
           /\ phase = "ready" => originalTimeouts' = originalTimeouts
           /\ IsSuffix(timeouts', originalTimeouts')
           /\ RetryStep =>
                 \/ timeouts' = timeouts
                 \/ timeouts # <<>> /\ timeouts' = Tail(timeouts)]_vars

\* After a stop() and a reset(), a retry() has removed the first of the restored
\* timeouts and left the others.
C20_Witness ==
    /\ phase = "ready"
    /\ stopCalled /\ resetAfterStop
    /\ last.call = "retry" /\ last.ret = "suspended"
    /\ Len(originalTimeouts) = MaxOpRetries
    /\ timeouts # <<>>
    /\ timeouts = Tail(originalTimeouts)
    /\ originalTimeouts[1] # LastOf(originalTimeouts)

====
